---- MODULE Spec2Model ----
(***************************************************************************)
(* Model of github.com/ktye/loops: a System of Blocks connected by         *)
(* unbuffered Go channels, one goroutine per block (src/loops.go, second   *)
(* version of the file, lines 127-287; src/blocks.go).                     *)
(*                                                                         *)
(* Go slices are 0-indexed: they are modelled as functions over 0..n-1.    *)
(* float64 values are modelled as integers; time is counted in units so    *)
(* that the global step size DT is an integer.                             *)
(***************************************************************************)
EXTENDS Integers, Sequences, FiniteSets, TLC

\* ------------------------------------------------------------------ bounds

\* The histories (steps, sent, rcvd, wrote) record the first MaxHist events;
\* the program itself keeps running past them.
MaxHist == 3

\* ---------------------------------------------------------- 0-indexed slices

Len0(a) == Cardinality(DOMAIN a)

Empty0 == [k \in {} |-> 0]

Append0(a, e) == [k \in 0..Len0(a) |-> IF k = Len0(a) THEN e ELSE a[k]]

\* make([]T, n): n zero values
Make(n, zero) == [k \in 0..(n - 1) |-> zero]

\* a log that keeps its first MaxHist entries
Log(s, e) == IF Len(s) < MaxHist THEN Append(s, e) ELSE s

Sat(n) == IF n < MaxHist THEN n + 1 ELSE n

\* ------------------------------------------------------------------ blocks

\* A Block value: its type, its parameter (Scale factor, Source value,
\* Stop.Time, Integrate's initial State, Plot.NumChannels) and, for a Stop,
\* the number of registered Callbacks.
Blk(kind, par, ncb) == [kind |-> kind, par |-> par, ncb |-> ncb]

Inputs(b) ==
    CASE b.kind = "Scale" -> 1
      [] b.kind = "ScaleHalves" -> 1
      [] b.kind = "Add" -> 2
      [] b.kind = "Add3" -> 3
      [] b.kind = "Integrate" -> 1
      [] b.kind = "Source" -> 0
      [] b.kind = "Print" -> 1
      [] b.kind = "Tee" -> 1
      [] b.kind = "Stop" -> 1
      [] b.kind = "Plot" -> b.par

Outputs(b) ==
    CASE b.kind = "Scale" -> 1
      [] b.kind = "ScaleHalves" -> 1
      [] b.kind = "Add" -> 1
      [] b.kind = "Add3" -> 1
      [] b.kind = "Integrate" -> 1
      [] b.kind = "Source" -> 1
      [] b.kind = "Print" -> 0
      [] b.kind = "Tee" -> 2
      [] b.kind = "Stop" -> 1
      [] b.kind = "Plot" -> 0

\* Variant: every block starts with a zero internal state.
InitMemZero(b) == 0

\* The initial internal state of a block instance: Integrate.State is set by
\* the owner, Stop.t, Print.time and Plot.x start at the zero value.
InitMem(b) == IF b.kind = "Integrate" THEN b.par ELSE 0

\* Variant: Stop halts when its time has passed the threshold.
StopReachedStrict(b, m, dt) == m + dt > b.par

\* Stop.Step's condition `s.t += DT; s.t >= s.Time`, on the value of s.t
\* before the call.
StopReached(b, m, dt) == m + dt >= b.par

\* Variant: Integrate adds its input to State without the step size.
IntegratedNoDT(m, v, dt) == m + v

\* Integrate.Step's `b.State += in[0] * DT`, on the State m before the call
Integrated(m, v, dt) == m + v * dt

\* b.Step(in, out) with internal state m and step size dt: the returned
\* boolean, the internal state and the out slice after the call. A Stop that
\* halts returns before it writes out[0]. What Print writes to standard
\* output and what Plot draws is not part of the state; Plot counts p.x.
Step(b, m, in, out, dt) ==
    CASE b.kind = "Scale" ->
           [ok |-> TRUE, mem |-> m, out |-> [out EXCEPT ![0] = b.par * in[0]]]
      [] b.kind = "ScaleHalves" ->
           [ok |-> TRUE, mem |-> m,
            out |-> [out EXCEPT ![0] = (b.par * in[0]) \div 2]]
      [] b.kind = "Add" ->
           [ok |-> TRUE, mem |-> m, out |-> [out EXCEPT ![0] = in[0] + in[1]]]
      [] b.kind = "Add3" ->
           [ok |-> TRUE, mem |-> m,
            out |-> [out EXCEPT ![0] = in[0] + in[1] + in[2]]]
      [] b.kind = "Integrate" ->
           [ok |-> TRUE, mem |-> Integrated(m, in[0], dt),
            out |-> [out EXCEPT ![0] = Integrated(m, in[0], dt)]]
      [] b.kind = "Source" ->
           [ok |-> TRUE, mem |-> m, out |-> [out EXCEPT ![0] = b.par]]
      [] b.kind = "Print" ->
           [ok |-> TRUE, mem |-> m + dt, out |-> out]
      [] b.kind = "Tee" ->
           [ok |-> TRUE, mem |-> m,
            out |-> [out EXCEPT ![0] = in[0], ![1] = in[0]]]
      [] b.kind = "Stop" ->
           IF StopReached(b, m, dt)
           THEN [ok |-> FALSE, mem |-> m + dt, out |-> out]
           ELSE [ok |-> TRUE, mem |-> m + dt, out |-> [out EXCEPT ![0] = in[0]]]
      [] b.kind = "Plot" ->
           [ok |-> TRUE, mem |-> m + 1, out |-> out]

\* ----------------------------------------------------------------- programs

\* One call of the construction API, as a test function makes them.
NoBlk == Blk("none", 0, 0)

AddCall(b) ==
    [op |-> "Add", blk |-> b, src |-> 0, dst |-> 0, o |-> 0, i |-> 0, x |-> 0]

ConnectCall(src, dst, o, i) ==
    [op |-> "Connect", blk |-> NoBlk, src |-> src, dst |-> dst, o |-> o,
     i |-> i, x |-> 0]

AddICCall(x, dst, i) ==
    [op |-> "AddIC", blk |-> NoBlk, src |-> 0, dst |-> dst, o |-> 0, i |-> i,
     x |-> x]

\* the subsequence of s at the indices in K
Sub(s, K) ==
    LET F[n \in 0..Len(s)] ==
            IF n = 0 THEN << >>
            ELSE IF n \in K THEN Append(F[n - 1], s[n]) ELSE F[n - 1]
    IN  F[Len(s)]

\* Stop.Time of the programs that halt, in units of DT.
StopTime == 2

\* A -> B -> A, two Scale blocks; the initial condition, when registered, is
\* sent to B's input 0, the A -> B edge.
Cycle2(withIC) ==
    << AddCall(Blk("Scale", -1, 0)), AddCall(Blk("Scale", 1, 0)),
       ConnectCall(0, 1, 0, 0), ConnectCall(1, 0, 0, 0) >>
    \o (IF withIC THEN << AddICCall(1, 1, 0) >> ELSE << >>)

\* Blocks 0 Scale, 1 Add, 2 Tee: Scale -> Add.0, Tee.1 -> Add.1, Add -> Tee,
\* Tee.0 -> Scale, with an initial condition on Tee's input (the values
\* alternate between 1 and -1); `keep` selects the Connect calls made.
Loop3Connects ==
    << ConnectCall(0, 1, 0, 0), ConnectCall(2, 1, 1, 1),
       ConnectCall(1, 2, 0, 0), ConnectCall(2, 0, 0, 0) >>

Loop3(keep) ==
    << AddCall(Blk("Scale", -2, 0)), AddCall(Blk("Add", 0, 0)),
       AddCall(Blk("Tee", 0, 0)) >>
    \o Sub(Loop3Connects, keep) \o << AddICCall(1, 2, 0) >>

\* Source -> Stop -> Print, the Stop with ncb callbacks; withIC registers an
\* initial condition on the Stop's input, the Source -> Stop edge.
Chain(ncb, withIC) ==
    << AddCall(Blk("Source", 2, 0)), AddCall(Blk("Stop", StopTime, ncb)),
       AddCall(Blk("Print", 0, 0)),
       ConnectCall(0, 1, 0, 0), ConnectCall(1, 2, 0, 0) >>
    \o (IF withIC THEN << AddICCall(7, 1, 0) >> ELSE << >>)

\* Source -> Stop.0, then a second Source -> Stop.0 that rebinds the Stop's
\* input, and Stop -> Print.
Rebind ==
    << AddCall(Blk("Source", 3, 0)), AddCall(Blk("Source", 2, 0)),
       AddCall(Blk("Stop", StopTime, 0)), AddCall(Blk("Print", 0, 0)),
       ConnectCall(0, 2, 0, 0), ConnectCall(1, 2, 0, 0),
       ConnectCall(2, 3, 0, 0) >>

\* Stop.Time of TestOde1, in units of DT: one step more than StopTime, so
\* that a value passes the feedback branch before the Stop halts.
Ode1Time == StopTime + 1

\* Variant: TestOde1 registers its initial condition for input 0 of add.
Ode1SeedInput0 ==
    << AddCall(Blk("Integrate", 1, 0)), AddCall(Blk("Plot", 1, 0)),
       AddCall(Blk("Scale", -1, 0)), AddCall(Blk("Add", 0, 0)),
       AddCall(Blk("Tee", 0, 0)), AddCall(Blk("Source", 0, 0)),
       AddCall(Blk("Stop", Ode1Time, 1)),
       ConnectCall(0, 4, 0, 0), ConnectCall(4, 1, 0, 0),
       ConnectCall(4, 2, 1, 0), ConnectCall(2, 3, 0, 1),
       ConnectCall(5, 6, 0, 0), ConnectCall(6, 3, 0, 0),
       ConnectCall(3, 0, 0, 0), AddICCall(1, 3, 0) >>

\* TestOde1, y' = -y: blocks 0 inte, 1 plt, 2 neg, 3 add, 4 tee, 5 zeros,
\* 6 stop with the callback that writes the plot.
Ode1 ==
    << AddCall(Blk("Integrate", 1, 0)), AddCall(Blk("Plot", 1, 0)),
       AddCall(Blk("Scale", -1, 0)), AddCall(Blk("Add", 0, 0)),
       AddCall(Blk("Tee", 0, 0)), AddCall(Blk("Source", 0, 0)),
       AddCall(Blk("Stop", Ode1Time, 1)),
       ConnectCall(0, 4, 0, 0), ConnectCall(4, 1, 0, 0),
       ConnectCall(4, 2, 1, 0), ConnectCall(2, 3, 0, 1),
       ConnectCall(5, 6, 0, 0), ConnectCall(6, 3, 0, 0),
       ConnectCall(3, 0, 0, 0), AddICCall(1, 3, 1) >>

\* The value 1.0 of TestOde2. Its Scale delta has the Factor -0.5, and a
\* value passes it once per step: the values are counted in sixteenths, so
\* that the halves of the first steps are integers.
One == 2 * 2 * 2 * 2

\* Variant: TestOde2 registers the initial condition of omega2 only.
Ode2OneIC ==
    << AddCall(Blk("Integrate", 0, 0)), AddCall(Blk("Integrate", One, 0)),
       AddCall(Blk("Plot", 1, 0)), AddCall(Blk("Scale", -30, 0)),
       AddCall(Blk("ScaleHalves", -1, 0)), AddCall(Blk("Add3", 0, 0)),
       AddCall(Blk("Tee", 0, 0)), AddCall(Blk("Tee", 0, 0)),
       AddCall(Blk("Source", 0, 0)), AddCall(Blk("Stop", StopTime, 1)),
       ConnectCall(8, 5, 0, 0), ConnectCall(5, 0, 0, 0),
       ConnectCall(0, 6, 0, 0), ConnectCall(6, 1, 0, 0),
       ConnectCall(1, 7, 0, 0), ConnectCall(7, 9, 0, 0),
       ConnectCall(9, 2, 0, 0), ConnectCall(6, 4, 1, 0),
       ConnectCall(4, 5, 0, 1), ConnectCall(7, 3, 1, 0),
       ConnectCall(3, 5, 0, 2),
       AddICCall(0, 3, 0) >>

\* TestOde2, y'' + delta y' + omega^2 y = 0: blocks 0 inte1, 1 inte2, 2 plt,
\* 3 omega2, 4 delta, 5 add, 6 tee1, 7 tee2, 8 zeros, 9 stop with the
\* callback that writes the plot.
Ode2 ==
    << AddCall(Blk("Integrate", 0, 0)), AddCall(Blk("Integrate", One, 0)),
       AddCall(Blk("Plot", 1, 0)), AddCall(Blk("Scale", -30, 0)),
       AddCall(Blk("ScaleHalves", -1, 0)), AddCall(Blk("Add3", 0, 0)),
       AddCall(Blk("Tee", 0, 0)), AddCall(Blk("Tee", 0, 0)),
       AddCall(Blk("Source", 0, 0)), AddCall(Blk("Stop", StopTime, 1)),
       ConnectCall(8, 5, 0, 0), ConnectCall(5, 0, 0, 0),
       ConnectCall(0, 6, 0, 0), ConnectCall(6, 1, 0, 0),
       ConnectCall(1, 7, 0, 0), ConnectCall(7, 9, 0, 0),
       ConnectCall(9, 2, 0, 0), ConnectCall(6, 4, 1, 0),
       ConnectCall(4, 5, 0, 1), ConnectCall(7, 3, 1, 0),
       ConnectCall(3, 5, 0, 2),
       AddICCall(0, 3, 0), AddICCall(One, 4, 0) >>

\* Source -> Tee, and each output of the Tee -> Stop -> Print: two Stops
\* with the same Time.
TwoStops ==
    << AddCall(Blk("Source", 2, 0)), AddCall(Blk("Tee", 0, 0)),
       AddCall(Blk("Stop", StopTime, 0)), AddCall(Blk("Print", 0, 0)),
       AddCall(Blk("Stop", StopTime, 1)), AddCall(Blk("Print", 0, 0)),
       ConnectCall(0, 1, 0, 0), ConnectCall(1, 2, 0, 0),
       ConnectCall(2, 3, 0, 0), ConnectCall(1, 4, 1, 0),
       ConnectCall(4, 5, 0, 0) >>

\* A diamond without a cycle: Source -> Tee, Tee.0 -> Add.1, Tee.1 -> Add.0,
\* Add -> Print. The two edges of the diamond cross.
DiamondCrossed ==
    << AddCall(Blk("Source", 1, 0)), AddCall(Blk("Tee", 0, 0)),
       AddCall(Blk("Add", 0, 0)), AddCall(Blk("Print", 0, 0)),
       ConnectCall(0, 1, 0, 0), ConnectCall(1, 2, 0, 1),
       ConnectCall(1, 2, 1, 0), ConnectCall(2, 3, 0, 0) >>

\* The loop of Loop3 with its two cycles through the Add seeded at the Add:
\* an initial condition for Add input 0 (the Scale -> Add edge) and one for
\* Add input 1 (the Tee.1 -> Add edge), registered in port order or, with
\* `reversed`, input 1 first.
Seed2(reversed) ==
    << AddCall(Blk("Scale", -2, 0)), AddCall(Blk("Add", 0, 0)),
       AddCall(Blk("Tee", 0, 0)) >>
    \o Loop3Connects
    \o (IF reversed THEN << AddICCall(0, 1, 1), AddICCall(1, 1, 0) >>
                    ELSE << AddICCall(1, 1, 0), AddICCall(0, 1, 1) >>)

\* The programs whose System is a block of a parent system: the parent's
\* worker calls its Step, and never its Start.
NestedNames == {"nested", "nested_unbound"}

Programs ==
    { [name |-> "cycle", prog |-> Cycle2(TRUE)],
      [name |-> "cycle_noic", prog |-> Cycle2(FALSE)],
      [name |-> "chain", prog |-> Chain(2, FALSE)],
      [name |-> "chain_nocb", prog |-> Chain(0, FALSE)],
      [name |-> "chain_ic", prog |-> Chain(2, TRUE)],
      [name |-> "rebind", prog |-> Rebind],
      [name |-> "twostops", prog |-> TwoStops],
      [name |-> "seed2", prog |-> Seed2(FALSE)],
      [name |-> "seed2_rev", prog |-> Seed2(TRUE)],
      [name |-> "diamond_crossed", prog |-> DiamondCrossed],
      [name |-> "ode1", prog |-> Ode1],
      [name |-> "ode2", prog |-> Ode2],
      [name |-> "nested", prog |-> Chain(2, FALSE)],
      [name |-> "nested_unbound", prog |-> Loop3({1, 2, 3})] }
    \cup { [name |-> "loop3", prog |-> Loop3(K)] : K \in SUBSET (1..4) }

\* ------------------------------------------------------------------- state

VARIABLES
    name,       \* the program being run (never changes)
    prog,       \* the construction calls still to be made
    blocks,     \* System.blocks: ioBlock {Block, In, Out}; a channel is a
                \* positive number, nil is 0
    initials,   \* System.initials
    nchan,      \* channels made so far
    mem,        \* the internal state of each block instance
    pc,         \* where the caller of Start is
    ret,        \* what Start returned
    icn,        \* index of the initial condition Start sends next
    w,          \* the worker goroutines, in spawn order: pc, port index i,
                \* the slices x and y
    cbLog,      \* callbacks invoked so far: <<block, callback index>>
    doneBy,     \* the workers whose send on `done` was received
    lastRet,    \* what each block's last returned Step returned
    steps,      \* history: Step calls that returned, per block
    sent,       \* history: per channel, the completed sends (by, val)
    rcvd,       \* history: per channel, the completed receives (by, val)
    wrote,      \* history: per block, the out slice after each returned Step
    DT,         \* var DT, the step size: a positive integer (the time unit of
                \* the model is the 0.01 the variable is declared with)
    initialized,\* System.initialized
    starts,     \* history: calls of System.Start
    stepn       \* history: calls of System.Step

vars ==
    << name, prog, blocks, initials, nchan, mem, pc, ret, icn, w, cbLog,
       doneBy, lastRet, steps, sent, rcvd, wrote, DT, initialized, starts,
       stepn >>

\* The sender id of Start's own goroutine in the histories.
Main == -1

NoRet == [kind |-> "none", block |-> -1, dir |-> "", port |-> -1]

Nil == [kind |-> "nil", block |-> -1, dir |-> "", port |-> -1]

\* fmt.Errorf("block %d input|output %d is not connected", i, k)
Err(i, dir, k) == [kind |-> "error", block |-> i, dir |-> dir, port |-> k]

InitOf(P) ==
    /\ \E p \in P : name = p.name /\ prog = p.prog
    /\ blocks = Empty0
    /\ initials = Empty0
    /\ nchan = 0
    /\ mem = Empty0
    /\ pc = "build"
    /\ ret = NoRet
    /\ icn = 0
    /\ w = Empty0
    /\ cbLog = << >>
    /\ doneBy = << >>
    /\ lastRet = Empty0
    /\ steps = Empty0
    /\ sent = << >>
    /\ rcvd = << >>
    /\ wrote = Empty0
    /\ DT = 1
    /\ initialized = FALSE
    /\ starts = 0
    /\ stepn = 0

Init == InitOf(Programs)

\* ------------------------------------------------------------ construction

Add ==
    /\ pc = "build" /\ prog # << >> /\ Head(prog).op = "Add"
    /\ LET b == Head(prog).blk
       IN  /\ blocks' = Append0(blocks,
                 [Block |-> b, In |-> Make(Inputs(b), 0),
                  Out |-> Make(Outputs(b), 0)])
           /\ mem' = Append0(mem, InitMem(b))
    /\ lastRet' = Append0(lastRet, "none")
    /\ steps' = Append0(steps, 0)
    /\ wrote' = Append0(wrote, << >>)
    /\ prog' = Tail(prog)
    /\ UNCHANGED << name, DT, initialized, starts, stepn, initials, nchan, pc, ret, icn, w, cbLog, doneBy,
                    sent, rcvd >>

AddIC ==
    /\ pc = "build" /\ prog # << >> /\ Head(prog).op = "AddIC"
    /\ LET c == Head(prog)
       IN  initials' = Append0(initials,
               [value |-> c.x, block |-> c.dst, input |-> c.i])
    /\ prog' = Tail(prog)
    /\ UNCHANGED << name, DT, initialized, starts, stepn, blocks, nchan, mem, pc, ret, icn, w, cbLog, doneBy,
                    lastRet, steps, sent, rcvd, wrote >>

\* Variant: Connect leaves an input that is bound already as it is.
ConnectKeepFirst ==
    /\ pc = "build" /\ prog # << >> /\ Head(prog).op = "Connect"
    /\ LET c == Head(prog)
           ch == nchan + 1
       IN  /\ blocks' = IF blocks[c.dst].In[c.i] # 0
                        THEN [blocks EXCEPT ![c.src].Out[c.o] = ch]
                        ELSE [blocks EXCEPT ![c.dst].In[c.i] = ch,
                                            ![c.src].Out[c.o] = ch]
           /\ nchan' = ch
    /\ sent' = Append(sent, << >>)
    /\ rcvd' = Append(rcvd, << >>)
    /\ prog' = Tail(prog)
    /\ UNCHANGED << name, DT, initialized, starts, stepn, initials, mem, pc,
                    ret, icn, w, cbLog, doneBy, lastRet, steps, wrote >>

\* Variant: every Connect binds the same channel instead of a new one.
ConnectShared ==
    /\ pc = "build" /\ prog # << >> /\ Head(prog).op = "Connect"
    /\ LET c == Head(prog)
       IN  /\ blocks' = [blocks EXCEPT ![c.dst].In[c.i] = 1,
                                       ![c.src].Out[c.o] = 1]
           /\ nchan' = 1
    /\ sent' = << << >> >>
    /\ rcvd' = << << >> >>
    /\ prog' = Tail(prog)
    /\ UNCHANGED << name, DT, initialized, starts, stepn, initials, mem, pc, ret, icn, w, cbLog, doneBy,
                    lastRet, steps, wrote >>

\* Connect between two registered blocks (o >= 0 and i >= 0, in range). The
\* boundary ports s.In and s.Out of a System are empty unless a parent sets
\* them; the programs do not use them.
Connect ==
    /\ pc = "build" /\ prog # << >> /\ Head(prog).op = "Connect"
    /\ LET c == Head(prog)
           ch == nchan + 1
       IN  /\ c.i >= 0 /\ c.o >= 0
           /\ c.dst \in DOMAIN blocks /\ c.i \in DOMAIN blocks[c.dst].In
           /\ c.src \in DOMAIN blocks /\ c.o \in DOMAIN blocks[c.src].Out
           /\ blocks' = [blocks EXCEPT ![c.dst].In[c.i] = ch,
                                       ![c.src].Out[c.o] = ch]
           /\ nchan' = ch
    /\ sent' = Append(sent, << >>)
    /\ rcvd' = Append(rcvd, << >>)
    /\ prog' = Tail(prog)
    /\ UNCHANGED << name, DT, initialized, starts, stepn, initials, mem, pc, ret, icn, w, cbLog, doneBy,
                    lastRet, steps, wrote >>

\* ------------------------------------------------------------------- check

\* the first nil entry of a slice of channels, -1 when there is none
FirstNil(a) ==
    IF \E k \in DOMAIN a : a[k] = 0
    THEN CHOOSE k \in DOMAIN a : a[k] = 0 /\ \A j \in 0..(k - 1) : a[j] # 0
    ELSE -1

\* Variant: check looks at a block's outputs before its inputs.
checkBlockOutFirst(i) ==
    IF FirstNil(blocks[i].Out) # -1
    THEN Err(i, "output", FirstNil(blocks[i].Out))
    ELSE IF FirstNil(blocks[i].In) # -1
         THEN Err(i, "input", FirstNil(blocks[i].In))
         ELSE Nil

\* the body of check's loop for block i: the error it returns, or Nil
checkBlock(i) ==
    IF FirstNil(blocks[i].In) # -1
    THEN Err(i, "input", FirstNil(blocks[i].In))
    ELSE IF FirstNil(blocks[i].Out) # -1
         THEN Err(i, "output", FirstNil(blocks[i].Out))
         ELSE Nil

\* Variant: check looks at the inputs of the blocks only.
checkInputsOnly ==
    IF \E i \in DOMAIN blocks : FirstNil(blocks[i].In) # -1
    THEN LET i == CHOOSE i \in DOMAIN blocks :
                      /\ FirstNil(blocks[i].In) # -1
                      /\ \A j \in 0..(i - 1) : FirstNil(blocks[j].In) = -1
         IN  Err(i, "input", FirstNil(blocks[i].In))
    ELSE Nil

check ==
    IF \E i \in DOMAIN blocks : checkBlock(i) # Nil
    THEN checkBlock(CHOOSE i \in DOMAIN blocks :
             checkBlock(i) # Nil /\ \A j \in 0..(i - 1) : checkBlock(j) = Nil)
    ELSE Nil

\* ------------------------------------------------------------------- Start

\* Variant: the worker makes a new y for every cycle.
LoopHeadFresh(b, x, y) ==
    [pc |-> IF Len0(blocks[b].In) = 0 THEN "run" ELSE "recv", i |-> 0,
     x |-> x, y |-> Make(Len0(y), 0)]

\* Variant: the worker calls Step before it receives its inputs.
LoopHeadStepFirst(b, x, y) == [pc |-> "run", i |-> 0, x |-> x, y |-> y]

\* A worker at the head of its `for` loop: it receives on in[0], or calls
\* Step at once when the block has no inputs.
LoopHead(b, x, y) ==
    [pc |-> IF Len0(blocks[b].In) = 0 THEN "run" ELSE "recv", i |-> 0,
     x |-> x, y |-> y]

\* Variant: Start waits for done without sending the initial conditions.
AfterSpawnNoIC == "wait"

\* Start after the spawn loop: the initial conditions, then <-done.
AfterSpawn == IF Len0(initials) = 0 THEN "wait" ELSE "ic"

\* the number of System.Step calls the model follows
MaxStepCalls == 2

\* system.Start(), called by the program that built the System
CallStart ==
    /\ pc = "build" /\ prog = << >>
    /\ name \notin NestedNames
    /\ pc' = "start"
    /\ starts' = starts + 1
    /\ UNCHANGED << name, DT, initialized, stepn, prog, blocks, initials,
                    nchan, mem, ret, icn, w, cbLog, doneBy, lastRet, steps,
                    sent, rcvd, wrote >>

\* s.Step(in, out) of a nested System, called when it is built and again
\* when an earlier call has returned: it calls Start unless s.initialized;
\* what Start returns is dropped. A call of Start on a System whose workers
\* exist already is not followed.
SystemStep ==
    /\ name \in NestedNames /\ prog = << >>
    /\ pc = "build" \/ (pc = "returned" /\ w = Empty0)
    /\ stepn < MaxStepCalls
    /\ stepn' = stepn + 1
    /\ IF ~ initialized
       THEN pc' = "start" /\ ret' = NoRet /\ starts' = starts + 1
       ELSE pc' = "returned" /\ UNCHANGED << ret, starts >>
    /\ UNCHANGED << name, DT, initialized, prog, blocks, initials, nchan,
                    mem, icn, w, cbLog, doneBy, lastRet, steps, sent, rcvd,
                    wrote >>

\* Variant: Start spawns the workers before it returns check's error.
StartFailSpawned ==
    /\ pc = "start"
    /\ check # Nil
    /\ pc' = "returned"
    /\ ret' = check
    /\ w' = [b \in DOMAIN blocks |->
                LoopHead(b, Make(Len0(blocks[b].In), 0),
                         Make(Len0(blocks[b].Out), 0))]
    /\ UNCHANGED << name, DT, initialized, starts, stepn, prog, blocks, initials, nchan, mem, icn, cbLog,
                    doneBy, lastRet, steps, sent, rcvd, wrote >>

\* check fails and Start returns the error.
StartFail ==
    /\ pc = "start"
    /\ check # Nil
    /\ pc' = "returned"
    /\ ret' = check
    /\ UNCHANGED << name, DT, initialized, starts, stepn, prog, blocks, initials, nchan, mem, icn, w, cbLog,
                    doneBy, lastRet, steps, sent, rcvd, wrote >>

\* check passes: done is made and the spawn loop begins.
StartOk ==
    /\ pc = "start"
    /\ check = Nil
    /\ pc' = IF Len0(blocks) = 0 THEN AfterSpawn ELSE "spawn"
    /\ UNCHANGED << name, DT, initialized, starts, stepn, prog, blocks, initials, nchan, mem, ret, icn, w,
                    cbLog, doneBy, lastRet, steps, sent, rcvd, wrote >>

\* Variant: Start sends the initial conditions as soon as the first worker
\* is spawned.
SpawnICFirst ==
    /\ pc = "spawn"
    /\ LET b == Len0(w)
       IN  /\ w' = Append0(w, LoopHead(b, Make(Len0(blocks[b].In), 0),
                                       Make(Len0(blocks[b].Out), 0)))
           /\ pc' = IF b + 1 = Len0(blocks) \/ Len0(initials) > 0
                    THEN AfterSpawn ELSE "spawn"
    /\ UNCHANGED << name, DT, initialized, starts, stepn, prog, blocks,
                    initials, nchan, mem, ret, icn, cbLog, doneBy, lastRet,
                    steps, sent, rcvd, wrote >>

\* go func(in, out, b) for the next block of s.blocks
Spawn ==
    /\ pc = "spawn"
    /\ LET b == Len0(w)
       IN  /\ w' = Append0(w, LoopHead(b, Make(Len0(blocks[b].In), 0),
                                       Make(Len0(blocks[b].Out), 0)))
           /\ pc' = IF b + 1 = Len0(blocks) THEN AfterSpawn ELSE "spawn"
    /\ UNCHANGED << name, DT, initialized, starts, stepn, prog, blocks, initials, nchan, mem, ret, icn, cbLog,
                    doneBy, lastRet, steps, sent, rcvd, wrote >>

\* ----------------------------------------------------------------- workers

\* Variant: the worker stores every received value in x[0].
ReceivedAt0(r, v) ==
    LET i == w[r].i
        x == [w[r].x EXCEPT ![0] = v]
    IN  IF i + 1 = Len0(blocks[r].In)
        THEN [pc |-> "run", i |-> 0, x |-> x, y |-> w[r].y]
        ELSE [pc |-> "recv", i |-> i + 1, x |-> x, y |-> w[r].y]

\* worker r, blocked in x[i], ok = <-c, gets v. No code closes a channel, so
\* ok is true on every receive. A send or receive on a nil channel blocks
\* forever: the rendezvous below needs a channel that is not 0.
Received(r, v) ==
    LET i == w[r].i
        x == [w[r].x EXCEPT ![i] = v]
    IN  IF i + 1 = Len0(blocks[r].In)
        THEN [pc |-> "run", i |-> 0, x |-> x, y |-> w[r].y]
        ELSE [pc |-> "recv", i |-> i + 1, x |-> x, y |-> w[r].y]

\* Variant: the worker starts its next cycle after its first send.
SentSkip(s) == LoopHead(s, w[s].x, w[s].y)

\* worker s, blocked in c <- y[i], has its value taken
Sent(s) ==
    LET i == w[s].i
    IN  IF i + 1 = Len0(blocks[s].Out)
        THEN LoopHead(s, w[s].x, w[s].y)
        ELSE [pc |-> "send", i |-> i + 1, x |-> w[s].x, y |-> w[s].y]

\* the channel worker b is blocked on, 0 (nil) when it is not blocked on one
RecvChan(b) == IF w[b].pc = "recv" THEN blocks[b].In[w[b].i] ELSE 0

SendChan(b) == IF w[b].pc = "send" THEN blocks[b].Out[w[b].i] ELSE 0

\* Variant: the worker sends x[i], its input, instead of y[i].
SendValInput(s) == IF w[s].i \in DOMAIN w[s].x THEN w[s].x[w[s].i] ELSE 0

\* the value of a worker's pending send c <- y[i]
SendVal(s) == w[s].y[w[s].i]

\* Variant: the channels are buffered, a send completes without a receiver.
TransferNoWait(s, r) ==
    /\ s \in DOMAIN w /\ r = s
    /\ SendChan(s) # 0
    /\ w' = [w EXCEPT ![s] = Sent(s)]
    /\ sent' = [sent EXCEPT
                    ![SendChan(s)] = Log(@, [by |-> s, val |-> SendVal(s)])]
    /\ UNCHANGED << name, DT, initialized, starts, stepn, prog, blocks,
                    initials, nchan, mem, pc, ret, icn, cbLog, doneBy, lastRet,
                    steps, rcvd, wrote >>

\* The rendezvous on an unbuffered channel: worker s is in c <- y[i], worker r
\* in x[k] = <-c, on the same channel.
Transfer(s, r) ==
    /\ s \in DOMAIN w /\ r \in DOMAIN w
    /\ SendChan(s) # 0 /\ SendChan(s) = RecvChan(r)
    /\ LET c == SendChan(s)
           v == SendVal(s)
       IN  /\ w' = [w EXCEPT ![r] = Received(r, v), ![s] = Sent(s)]
           /\ sent' = [sent EXCEPT ![c] = Log(@, [by |-> s, val |-> v])]
           /\ rcvd' = [rcvd EXCEPT
                  ![c] = Log(@, [by |-> r, val |-> Received(r, v).x[w[r].i]])]
    /\ UNCHANGED << name, DT, initialized, starts, stepn, prog, blocks, initials, nchan, mem, pc, ret, icn,
                    cbLog, doneBy, lastRet, steps, wrote >>

\* Variant: Start's loop over s.initials does not advance.
SendICAgain(r) ==
    /\ pc = "ic" /\ r \in DOMAIN w
    /\ LET ic == initials[icn]
           c == blocks[ic.block].In[ic.input]
       IN  /\ c # 0 /\ c = RecvChan(r)
           /\ w' = [w EXCEPT ![r] = Received(r, ic.value)]
           /\ sent' = [sent EXCEPT ![c] = Log(@, [by |-> Main, val |-> ic.value])]
           /\ rcvd' = [rcvd EXCEPT
                  ![c] = Log(@, [by |-> r, val |-> Received(r, ic.value).x[w[r].i]])]
    /\ UNCHANGED << name, DT, initialized, starts, stepn, prog, blocks, initials, nchan, mem, pc, ret, icn,
                    cbLog, doneBy, lastRet, steps, wrote >>

\* s.blocks[ic.block].In[ic.input] <- ic.value, received by worker r
SendIC(r) ==
    /\ pc = "ic" /\ r \in DOMAIN w
    /\ LET ic == initials[icn]
           c == blocks[ic.block].In[ic.input]
       IN  /\ c # 0 /\ c = RecvChan(r)
           /\ w' = [w EXCEPT ![r] = Received(r, ic.value)]
           /\ sent' = [sent EXCEPT ![c] = Log(@, [by |-> Main, val |-> ic.value])]
           /\ rcvd' = [rcvd EXCEPT
                  ![c] = Log(@, [by |-> r, val |-> Received(r, ic.value).x[w[r].i]])]
    /\ icn' = icn + 1
    /\ pc' = IF icn + 1 = Len0(initials) THEN "wait" ELSE "ic"
    /\ UNCHANGED << name, DT, initialized, starts, stepn, prog, blocks, initials, nchan, mem, ret, cbLog,
                    doneBy, lastRet, steps, wrote >>

\* Variant: the worker notifies done after a Step that returned true.
ContinueDone(b, y) == [pc |-> "done", i |-> 0, x |-> w[b].x, y |-> y]

\* the worker after b.Step returned true with out slice y
Continue(b, y) ==
    IF Len0(blocks[b].Out) = 0
    THEN LoopHead(b, w[b].x, y)
    ELSE [pc |-> "send", i |-> 0, x |-> w[b].x, y |-> y]

\* Variant: every worker calls the Step of the last block of s.blocks (the
\* goroutine reads the loop variable instead of its argument).
CallStepOfLast(b) ==
    /\ b \in DOMAIN w /\ w[b].pc = "run"
    /\ LET B == Len0(blocks) - 1
           x == [k \in 0..2 |-> IF k \in DOMAIN w[b].x THEN w[b].x[k] ELSE 0]
           y == [k \in 0..2 |-> IF k \in DOMAIN w[b].y THEN w[b].y[k] ELSE 0]
           r == Step(blocks[B].Block, mem[B], x, y, DT)
       IN  /\ mem' = [mem EXCEPT ![B] = r.mem]
           /\ w' = [w EXCEPT ![b] = Continue(b, w[b].y)]
           /\ lastRet' = [lastRet EXCEPT ![b] = "continue"]
           /\ steps' = [steps EXCEPT ![b] = Sat(@)]
           /\ wrote' = [wrote EXCEPT ![b] = Log(@, w[b].y)]
    /\ UNCHANGED << name, DT, initialized, starts, stepn, prog, blocks,
                    initials, nchan, pc, ret, icn, cbLog, doneBy, sent, rcvd >>

\* b.Step(x, y) of worker b. A Stop that halts runs its callbacks one by one
\* (RunCallback) before it returns false.
CallStep(b) ==
    /\ b \in DOMAIN w /\ w[b].pc = "run"
    /\ LET r == Step(blocks[b].Block, mem[b], w[b].x, w[b].y, DT)
       IN  /\ mem' = [mem EXCEPT ![b] = r.mem]
           /\ IF r.ok
              THEN /\ w' = [w EXCEPT ![b] = Continue(b, r.out)]
                   /\ lastRet' = [lastRet EXCEPT ![b] = "continue"]
                   /\ steps' = [steps EXCEPT ![b] = Sat(@)]
                   /\ wrote' = [wrote EXCEPT ![b] = Log(@, r.out)]
              ELSE IF blocks[b].Block.ncb > 0
                   THEN /\ w' = [w EXCEPT ![b].pc = "cb", ![b].i = 0]
                        /\ UNCHANGED << lastRet, steps, wrote >>
                   ELSE /\ w' = [w EXCEPT ![b].pc = "done"]
                        /\ lastRet' = [lastRet EXCEPT ![b] = "stop"]
                        /\ steps' = [steps EXCEPT ![b] = Sat(@)]
                        /\ wrote' = [wrote EXCEPT ![b] = Log(@, r.out)]
    /\ UNCHANGED << name, DT, initialized, starts, stepn, prog, blocks, initials, nchan, pc, ret, icn, cbLog,
                    doneBy, sent, rcvd >>

\* Variant: Stop.Step returns false after its first callback.
RunCallbackOnce(b) ==
    /\ b \in DOMAIN w /\ w[b].pc = "cb"
    /\ cbLog' = Append(cbLog, << b, w[b].i >>)
    /\ w' = [w EXCEPT ![b].pc = "done", ![b].i = 0]
    /\ lastRet' = [lastRet EXCEPT ![b] = "stop"]
    /\ steps' = [steps EXCEPT ![b] = Sat(@)]
    /\ wrote' = [wrote EXCEPT ![b] = Log(@, w[b].y)]
    /\ UNCHANGED << name, DT, initialized, starts, stepn, prog, blocks, initials, nchan, mem, pc, ret, icn,
                    doneBy, sent, rcvd >>

\* for _, f := range s.Callbacks { f() }: one call; after the last one
\* Stop.Step returns false.
RunCallback(b) ==
    /\ b \in DOMAIN w /\ w[b].pc = "cb"
    /\ cbLog' = Append(cbLog, << b, w[b].i >>)
    /\ IF w[b].i + 1 = blocks[b].Block.ncb
       THEN /\ w' = [w EXCEPT ![b].pc = "done", ![b].i = 0]
            /\ lastRet' = [lastRet EXCEPT ![b] = "stop"]
            /\ steps' = [steps EXCEPT ![b] = Sat(@)]
            /\ wrote' = [wrote EXCEPT ![b] = Log(@, w[b].y)]
       ELSE /\ w' = [w EXCEPT ![b].i = @ + 1]
            /\ UNCHANGED << lastRet, steps, wrote >>
    /\ UNCHANGED << name, DT, initialized, starts, stepn, prog, blocks, initials, nchan, mem, pc, ret, icn,
                    doneBy, sent, rcvd >>

\* Variant: Start receives from done in a loop.
RecvDoneLoop(b) ==
    /\ pc = "wait"
    /\ b \in DOMAIN w /\ w[b].pc = "done"
    /\ w' = [w EXCEPT ![b].pc = "exit"]
    /\ doneBy' = Append(doneBy, b)
    /\ UNCHANGED << name, DT, initialized, starts, stepn, prog, blocks,
                    initials, nchan, mem, pc, ret, icn, cbLog, lastRet, steps,
                    sent, rcvd, wrote >>

\* done <- true of worker b meets <-done of Start: the worker returns, Start
\* returns nil.
RecvDone(b) ==
    /\ pc = "wait"
    /\ b \in DOMAIN w /\ w[b].pc = "done"
    /\ w' = [w EXCEPT ![b].pc = "exit"]
    /\ doneBy' = Append(doneBy, b)
    /\ pc' = "returned"
    /\ ret' = Nil
    /\ UNCHANGED << name, DT, initialized, starts, stepn, prog, blocks, initials, nchan, mem, icn, cbLog,
                    lastRet, steps, sent, rcvd, wrote >>

\* ------------------------------------------------------------ specification

\* an upper bound on the number of blocks of a program
MaxBlocks == 10

Ids == 0..(MaxBlocks - 1)

Worker(b) ==
    \/ CallStep(b)
    \/ RunCallback(b)
    \/ \E r \in Ids : Transfer(b, r)
    \/ SendIC(b)
    \/ RecvDone(b)

\* the goroutine that builds the System and calls Start
Caller ==
    \/ Add
    \/ Connect
    \/ AddIC
    \/ CallStart
    \/ SystemStep
    \/ StartFail
    \/ StartOk
    \/ Spawn

Next ==
    \/ Caller
    \/ \E b \in Ids : Worker(b)

Spec == Init /\ [][Next]_vars

\* The Go scheduler runs every goroutine that can run: a worker that can
\* take a step, alone or in a rendezvous, eventually takes one.
FairSpec == Spec /\ WF_vars(Caller) /\ \A b \in Ids : WF_vars(Worker(b))

\* ------------------------------------------------------------ vocabulary

Validated == pc \in {"spawn", "ic", "wait"} \/ ret = Nil

Stops == {b \in DOMAIN blocks : blocks[b].Block.kind = "Stop"}

\* the callbacks of Stop block b, in registration order
Callbacks(b) == [k \in 1..blocks[b].Block.ncb |-> << b, k - 1 >>]

IsPrefix(s, t) == Len(s) <= Len(t) /\ \A k \in 1..Len(s) : s[k] = t[k]

\* a port: block, direction (0 input, 1 output), port index
Ports ==
    UNION {{<< i, 0, k >> : k \in DOMAIN blocks[i].In}
           \cup {<< i, 1, k >> : k \in DOMAIN blocks[i].Out} :
           i \in DOMAIN blocks}

PortChan(p) ==
    IF p[2] = 0 THEN blocks[p[1]].In[p[3]] ELSE blocks[p[1]].Out[p[3]]

UnboundPorts == {p \in Ports : PortChan(p) = 0}

\* scan order: block, then inputs before outputs, then port index
ScanBefore(p, q) ==
    \/ p[1] < q[1]
    \/ p[1] = q[1] /\ p[2] < q[2]
    \/ p[1] = q[1] /\ p[2] = q[2] /\ p[3] < q[3]

ErrOf(p) == Err(p[1], IF p[2] = 0 THEN "input" ELSE "output", p[3])

\* -------------------------------------------------------------------- claims

\* C1: Start returns nil only after it received exactly one notification on
\* done; a worker sends on done only when its Step has just returned false;
\* without a Step that returned false Start has not returned.
C1_StartReturnsOnStop ==
    /\ Len(doneBy) <= 1
    /\ ret = Nil =>
          /\ Len(doneBy) = 1
          /\ lastRet[doneBy[1]] = "stop"
          /\ w[doneBy[1]].pc = "exit"
    /\ \A b \in DOMAIN w : w[b].pc = "done" => lastRet[b] = "stop"
    /\ (Validated /\ \A b \in DOMAIN blocks : lastRet[b] # "stop") => ret = NoRet

C1_Witness == ret = Nil /\ Len(doneBy) = 1 /\ steps[doneBy[1]] = StopTime

\* C2: with one Stop block, when its worker sends on done and when Start
\* has returned, every callback of the Stop has been invoked exactly once, in
\* registration order; at no time has a callback run twice or out of order.
C2_CallbacksOnce ==
    \A b \in Stops :
        Stops = {b} =>
            /\ IsPrefix(cbLog, Callbacks(b))
            /\ (b \in DOMAIN w /\ w[b].pc \in {"done", "exit"}) =>
                   cbLog = Callbacks(b)
            /\ ret = Nil => cbLog = Callbacks(b)

C2_Witness == ret = Nil /\ Len(cbLog) = 2 /\ Cardinality(Stops) = 1

\* the two-block cycle A -> B -> A, one input and one output each
IsCycle2 ==
    /\ prog = << >> /\ Len0(blocks) = 2
    /\ \A b \in {0, 1} : Len0(blocks[b].In) = 1 /\ Len0(blocks[b].Out) = 1
    /\ blocks[0].Out[0] # 0 /\ blocks[0].Out[0] = blocks[1].In[0]
    /\ blocks[1].Out[0] # 0 /\ blocks[1].Out[0] = blocks[0].In[0]

\* C3: in the two-block cycle with one initial condition on B's input no
\* state is a deadlock, and under weak fairness both A and B complete Step
\* infinitely often.
C3_CycleProgresses ==
    /\ [](name = "cycle" => ENABLED Next)
    /\ name = "cycle" => /\ []<><< CallStep(0) >>_vars
                         /\ []<><< CallStep(1) >>_vars

C3_Witness ==
    /\ IsCycle2 /\ Len0(initials) = 1
    /\ initials[0].block = 1 /\ initials[0].input = 0
    /\ steps[0] = MaxHist /\ steps[1] = MaxHist

\* C4: in the two-block cycle without an initial condition check passes and
\* both workers are spawned, but each stays in its first receive: no Step is
\* invoked and Start neither returns nor reports an error.
C4_UnseededCycleStalls ==
    (IsCycle2 /\ Len0(initials) = 0) =>
        /\ ret = NoRet
        /\ pc \in {"build", "start", "spawn", "wait"}
        /\ \A b \in DOMAIN w :
               w[b].pc = "recv" /\ w[b].i = 0 /\ steps[b] = 0
        /\ \A b \in DOMAIN blocks : lastRet[b] = "none"

C4_Witness ==
    IsCycle2 /\ Len0(initials) = 0 /\ pc = "wait" /\ Len0(w) = 2
    /\ ~ ENABLED Next

\* C5: when a port is unbound at the call of Start, Start returns the error
\* that names the first unbound port in scan order.
C5_FirstUnboundReported ==
    (pc \notin {"build", "start"} /\ UnboundPorts # {}) =>
        /\ pc = "returned"
        /\ \E p \in UnboundPorts :
               /\ \A q \in UnboundPorts : ~ ScanBefore(q, p)
               /\ ret = ErrOf(p)

C5_Witness ==
    /\ ret.kind = "error" /\ ret.dir = "input"
    /\ << ret.block, 1, 0 >> \in UnboundPorts
    /\ \E q \in UnboundPorts : q[1] > ret.block /\ q[2] = 0

\* C6: a Start that returns an error has spawned no worker, sent no initial
\* condition, run no Step and no callback, and has left the blocks, their
\* port bindings, their state and the initial conditions as they were.
C6_FailedStartNoEffect ==
    [][ret'.kind = "error" =>
          /\ UNCHANGED << blocks, initials, nchan, mem >>
          /\ w' = Empty0 /\ icn' = 0 /\ cbLog' = << >> /\ doneBy' = << >>
          /\ \A b \in DOMAIN blocks' : steps'[b] = 0 /\ lastRet'[b] = "none"
          /\ \A c \in 1..nchan' : sent'[c] = << >> /\ rcvd'[c] = << >>]_vars

C6_Witness == ret.kind = "error" /\ Len0(blocks) = 3 /\ Len0(initials) = 1

\* --------------------------------------------------------- edges, histories

Chans == 1..nchan

\* the blocks with an output (input) port bound to channel c
Producer(c) ==
    {b \in DOMAIN blocks : \E o \in DOMAIN blocks[b].Out : blocks[b].Out[o] = c}

Consumer(c) ==
    {b \in DOMAIN blocks : \E i \in DOMAIN blocks[b].In : blocks[b].In[i] = c}

\* the channel initial condition k is sent on
ICChan(k) == blocks[initials[k].block].In[initials[k].input]

Seeded(c) == \E k \in DOMAIN initials : ICChan(k) = c

\* the number of entries of log s sent by Start
ByMain(s) == Cardinality({n \in 1..Len(s) : s[n].by = Main})

Vals(s) == [n \in 1..Len(s) |-> s[n].val]

\* the values Start sent on channel c, in order
MainVals(c) ==
    LET FromMain(e) == e.by = Main
    IN  Vals(SelectSeq(sent[c], FromMain))

\* the values of the initial conditions registered for channel c, in order
ICVals(c) ==
    LET F[n \in 0..Len0(initials)] ==
            IF n = 0 THEN << >>
            ELSE IF ICChan(n - 1) = c
                 THEN Append(F[n - 1], initials[n - 1].value)
                 ELSE F[n - 1]
    IN  F[Len0(initials)]

\* The blocks that cannot complete a Step before block B does: B itself, and
\* every block with an input edge that carries no initial condition and is
\* written by such a block.
Grow(W) ==
    W \cup {X \in DOMAIN blocks :
               \E i \in DOMAIN blocks[X].In :
                   /\ ~ Seeded(blocks[X].In[i])
                   /\ Producer(blocks[X].In[i]) \cap W # {}}

WaitsFor(B) ==
    LET F[n \in 0..MaxBlocks] == IF n = 0 THEN {B} ELSE Grow(F[n - 1])
    IN  F[MaxBlocks]

\* the sends blocked on channel c: by workers, and by Start
WorkerSends(c) == {b \in DOMAIN w : SendChan(b) = c}

MainSends(c) == IF pc = "ic" /\ ICChan(icn) = c THEN 1 ELSE 0

\* Step calls of block b made so far, returned or in progress
Invoked(b) ==
    steps[b] + (IF b \in DOMAIN w /\ w[b].pc \in {"run", "cb"} THEN 1 ELSE 0)

\* C7 as stated: every initial condition is delivered at most once and is the
\* first value received on its target port, in any validated system.
C7_ICFirstAlways ==
    \A k \in DOMAIN initials :
        pc # "build" =>
            LET c == ICChan(k)
            IN  c \in Chans =>
                /\ ByMain(sent[c]) <= 1
                /\ sent[c] # << >> =>
                       /\ sent[c][1] = [by |-> Main, val |-> initials[k].value]
                       /\ rcvd[c][1] = [by |-> initials[k].block,
                                        val |-> initials[k].value]

\* C7, amended: Start sends each initial condition at most once, in
\* registration order, and has sent each exactly once when it waits on done;
\* the first one registered for a port is the first value received on that
\* port when the producer of the edge cannot complete a Step before the
\* target block does (the edge closes a cycle not seeded elsewhere).
C7_ICFirstOnCycle ==
    pc # "build" =>
        /\ \A c \in Chans : IsPrefix(MainVals(c), ICVals(c))
        /\ (pc = "wait" \/ ret = Nil) =>
               \A c \in Chans : MainVals(c) = ICVals(c)
        /\ \A k \in DOMAIN initials :
               LET c == ICChan(k)
                   B == initials[k].block
               IN  (/\ c \in Chans
                    /\ Producer(c) \subseteq WaitsFor(B)
                    /\ \A j \in 0..(k - 1) : ICChan(j) # c
                    /\ sent[c] # << >>) =>
                       /\ sent[c][1] = [by |-> Main, val |-> initials[k].value]
                       /\ rcvd[c][1] = [by |-> B, val |-> initials[k].value]

C7_Witness ==
    /\ name = "loop3" /\ icn = 1
    /\ Producer(ICChan(0)) = {1} /\ 1 \in WaitsFor(2)
    /\ Len(sent[ICChan(0)]) >= 2
    /\ sent[ICChan(0)][1].by = Main /\ sent[ICChan(0)][2].by = 1

\* C8 as stated: every send on an edge is made by the worker of the one
\* block whose output is bound to it, every receive by the worker of the one
\* block whose input is bound to it.
C8_OneWriterAlways ==
    \A c \in Chans :
        /\ \A n \in 1..Len(sent[c]) : Producer(c) = {sent[c][n].by}
        /\ \A n \in 1..Len(rcvd[c]) : Consumer(c) = {rcvd[c][n].by}

\* C8, amended: an edge has at most one block bound as its writer and at
\* most one as its reader; every worker's send or receive on it is by that
\* block's worker; the only other sender is Start, which sends the initial
\* conditions on their target edges.
C8_OneWriterBesidesStart ==
    \A c \in Chans :
        /\ Cardinality(Producer(c)) <= 1 /\ Cardinality(Consumer(c)) <= 1
        /\ \A n \in 1..Len(sent[c]) :
               \/ sent[c][n].by = Main /\ Seeded(c)
               \/ Producer(c) = {sent[c][n].by}
        /\ \A n \in 1..Len(rcvd[c]) : Consumer(c) = {rcvd[c][n].by}
        /\ \A b \in WorkerSends(c) : Producer(c) = {b}
        /\ \A b \in DOMAIN w : RecvChan(b) = c => Consumer(c) = {b}

C8_Witness ==
    \E c \in Chans :
        /\ Len(sent[c]) >= 2
        /\ sent[c][1].by = Main /\ Producer(c) = {sent[c][2].by}

\* C9 as stated: on every edge the values received are the values sent, in
\* order, and at most one send is pending.
C9_FifoOnePending ==
    \A c \in Chans :
        /\ Vals(rcvd[c]) = Vals(sent[c])
        /\ Cardinality(WorkerSends(c)) + MainSends(c) <= 1

\* C9, amended: on every edge the values received are the values sent, in
\* order; at most one worker's send is pending on it, beside which only
\* Start's send of an initial condition can be pending.
C9_FifoOneWorkerPending ==
    \A c \in Chans :
        /\ Vals(rcvd[c]) = Vals(sent[c])
        /\ Cardinality(WorkerSends(c)) <= 1
        /\ MainSends(c) = 1 => Seeded(c)

C9_Witness ==
    \E c \in Chans :
        /\ Cardinality(WorkerSends(c)) = 1 /\ MainSends(c) = 1
        /\ Len(rcvd[c]) >= 1 /\ rcvd[c][1].val # 0

\* C10: on an edge from output o of A to input i of B that carries no initial
\* condition, B's k-th Step is called only after A's k-th Step returned, and
\* reads on input i what A's k-th Step left in out[o].
C10_ReadsWhatWasWritten ==
    \A c \in Chans : \A A \in Producer(c) : \A B \in Consumer(c) :
        ~ Seeded(c) =>
            /\ steps[A] < MaxHist => Invoked(B) <= steps[A]
            /\ \A o \in DOMAIN blocks[A].Out : \A i \in DOMAIN blocks[B].In :
                   (/\ blocks[A].Out[o] = c /\ blocks[B].In[i] = c
                    /\ B \in DOMAIN w /\ w[B].pc = "run"
                    /\ steps[B] < Len(wrote[A])) =>
                       w[B].x[i] = wrote[A][steps[B] + 1][o]

C10_Witness ==
    \E c \in Chans : \E A \in Producer(c) : \E B \in Consumer(c) :
        /\ ~ Seeded(c) /\ B \in DOMAIN w /\ w[B].pc = "run"
        /\ steps[B] = 1 /\ steps[A] = 2
        /\ 1 \in DOMAIN blocks[B].In /\ blocks[B].In[1] = c /\ w[B].x[1] # 0

\* C14: when a worker exists every port of every block is bound; check
\* returns nil exactly when no port is unbound.
C14_PortsBoundWhenRunning ==
    /\ Len0(w) > 0 => UnboundPorts = {}
    /\ Validated => UnboundPorts = {}
    /\ check = Nil <=> UnboundPorts = {}

C14_Witness ==
    /\ Len0(w) = 3 /\ UnboundPorts = {} /\ Cardinality(Ports) = 8
    /\ check = Nil

\* C15: for a System used as a nested block, Start is called exactly once,
\* by the first call of Step, whatever the number of Step calls.
C15_StartOnce ==
    name \in NestedNames => starts = (IF stepn = 0 THEN 0 ELSE 1)

\* C16 as stated: at every call of Step by a worker, x has Inputs() entries,
\* y has Outputs() entries, and y holds nothing an earlier Step wrote.
C16_FreshBuffers ==
    \A b \in DOMAIN w :
        w[b].pc = "run" =>
            /\ Len0(w[b].x) = Inputs(blocks[b].Block)
            /\ Len0(w[b].y) = Outputs(blocks[b].Block)
            /\ w[b].y = Make(Outputs(blocks[b].Block), 0)

\* C16, amended: at every call of Step by a worker, x has Inputs() entries
\* and y has Outputs() entries; y is made once per worker, so it holds zeros
\* at the first call and at every later call what the previous Step left in
\* it.
C16_ReusedBuffers ==
    \A b \in DOMAIN w :
        w[b].pc = "run" =>
            /\ Len0(w[b].x) = Inputs(blocks[b].Block)
            /\ Len0(w[b].y) = Outputs(blocks[b].Block)
            /\ steps[b] = 0 => w[b].y = Make(Outputs(blocks[b].Block), 0)
            /\ (steps[b] > 0 /\ steps[b] < MaxHist) =>
                   w[b].y = wrote[b][steps[b]]

C16_Witness ==
    \E b \in DOMAIN w :
        /\ w[b].pc = "run" /\ steps[b] = 2 /\ Len0(w[b].y) = 2
        /\ w[b].y[0] # 0 /\ w[b].y[1] # 0

\* the channels that have a writer and no reader: the edge of a Connect whose
\* destination input was bound again by a later Connect
Orphans == {c \in Chans : Producer(c) # {} /\ Consumer(c) = {}}

\* C17: when a second Connect rebinds an input, the first edge keeps its
\* writer and has no reader; check passes and no error is reported; the
\* first source's worker never completes its first send on that edge.
C17_ReboundInputStalls ==
    (name = "rebind" /\ pc # "build") =>
        /\ Orphans = {1} /\ Producer(1) = {0}
        /\ blocks[2].In[0] = 2 /\ Producer(2) = {1} /\ Consumer(2) = {2}
        /\ UnboundPorts = {} /\ ret.kind # "error"
        /\ sent[1] = << >> /\ steps[0] <= 1
        /\ 0 \in DOMAIN w => w[0].pc \in {"run", "send"}

C17_Witness ==
    /\ name = "rebind" /\ ret = Nil
    /\ w[0].pc = "send" /\ SendChan(0) = 1 /\ steps[0] = 1
    /\ steps[1] = StopTime

\* C18: a Start spawns one worker per block, in order; the internal state
\* of a block changes only in a step in which its own worker, and no other,
\* is in Step.
C18_OwnWorkerOnly ==
    [][/\ Len0(w') <= Len0(blocks')
       /\ (pc' \in {"ic", "wait"} \/ ret' = Nil) => DOMAIN w' = DOMAIN blocks'
       /\ \A b \in DOMAIN mem :
              mem'[b] # mem[b] =>
                  /\ b \in DOMAIN w /\ w[b].pc = "run" /\ w'[b].pc # "run"
                  /\ \A c \in DOMAIN w : c # b => w'[c] = w[c]]_vars

C18_Witness ==
    /\ name = "rebind" /\ Len0(w) = 4 /\ pc = "wait"
    /\ mem[2] = 1 /\ w[2].pc = "send" /\ w[0].pc = "send" /\ w[1].pc = "run"

\* the number of entries of log s made by worker b
ByWorker(s, b) == Cardinality({n \in 1..Len(s) : s[n].by = b})

\* the receives worker b completed on its input k, and the sends it completed
\* on its output k
RecvCount(b, k) == ByWorker(rcvd[blocks[b].In[k]], b)

SendCount(b, k) == ByWorker(sent[blocks[b].Out[k]], b)

\* the logs of worker b's edges and its Step counter hold everything that
\* happened (none has reached its bound)
Unsaturated(b) ==
    /\ steps[b] < MaxHist
    /\ \A k \in DOMAIN blocks[b].Out :
           steps[b] + Len(ICVals(blocks[b].Out[k])) <= MaxHist

\* C20: a worker's cycle is one receive per input in ascending port order,
\* then one Step, then, when Step returned true, one send per output in
\* ascending port order; when Step returned false the worker sends on no
\* output, notifies `done` once and exits. With n the number of Steps that
\* have returned: while receiving input i the inputs below i have n + 1
\* receives, the others n, and every output n sends; in Step every input has
\* n + 1 receives and every output n sends; while sending output i every
\* input has n receives, the outputs below i have n sends and the others
\* n - 1; after a Step that returned false every input has n receives and
\* every output n - 1 sends.
C20_WorkerCycleOrder ==
    \A b \in DOMAIN w :
        Unsaturated(b) =>
            LET n == steps[b]
                In == DOMAIN blocks[b].In
                Out == DOMAIN blocks[b].Out
                i == w[b].i
            IN  /\ w[b].pc = "recv" =>
                       /\ i \in In
                       /\ \A k \in In :
                              RecvCount(b, k) = IF k < i THEN n + 1 ELSE n
                       /\ \A k \in Out : SendCount(b, k) = n
                       /\ n > 0 => lastRet[b] = "continue"
                /\ w[b].pc \in {"run", "cb"} =>
                       /\ \A k \in In : RecvCount(b, k) = n + 1
                       /\ \A k \in Out : SendCount(b, k) = n
                       /\ n > 0 => lastRet[b] = "continue"
                /\ w[b].pc = "send" =>
                       /\ i \in Out /\ n > 0 /\ lastRet[b] = "continue"
                       /\ \A k \in In : RecvCount(b, k) = n
                       /\ \A k \in Out :
                              SendCount(b, k) = IF k < i THEN n ELSE n - 1
                /\ w[b].pc \in {"done", "exit"} =>
                       /\ n > 0 /\ lastRet[b] = "stop"
                       /\ \A k \in In : RecvCount(b, k) = n
                       /\ \A k \in Out : SendCount(b, k) = n - 1
                       /\ ByWorker([m \in 1..Len(doneBy) |-> [by |-> doneBy[m]]], b)
                              = IF w[b].pc = "exit" THEN 1 ELSE 0

C20_Witness ==
    /\ \E b \in DOMAIN w :
           /\ Unsaturated(b) /\ w[b].pc = "send" /\ w[b].i = 1 /\ steps[b] = 2
           /\ Len0(blocks[b].Out) = 2 /\ SendCount(b, 0) = 2
           /\ SendCount(b, 1) = 1
    /\ \E b \in DOMAIN w :
           /\ Unsaturated(b) /\ w[b].pc = "recv" /\ w[b].i = 1 /\ steps[b] = 1
           /\ Len0(blocks[b].In) = 2 /\ RecvCount(b, 0) = 2

\* a worker whose Step returned false has left without a send
C20_WitnessStop ==
    \E b \in DOMAIN w :
        /\ Unsaturated(b) /\ w[b].pc = "exit" /\ steps[b] = StopTime
        /\ SendCount(b, 0) = StopTime - 1 /\ RecvCount(b, 0) = StopTime

\* ------------------------------------------------------- one block alone

\* Stop.Step and Integrate.Step as functions of the block's fields, the step
\* size and the inputs: a caller makes one Stop or one Integrate and calls
\* its Step again and again, as a worker does, until it returns false.
\* Thresholds, step sizes and values are integers: multiples of one time
\* unit, so that the sums are exact.
MaxT == 5

MaxDT == 3

MaxIn == 1

MaxCalls == 7

InVals == (0 - MaxIn)..MaxIn

InitBlock ==
    /\ name = "block" /\ prog = << >>
    /\ \E b \in {Blk("Stop", T, 0) : T \in 0..MaxT}
                   \cup {Blk("Integrate", x0, 0) : x0 \in InVals} :
           /\ blocks = Append0(Empty0,
                  [Block |-> b, In |-> Make(Inputs(b), 0),
                   Out |-> Make(Outputs(b), 0)])
           /\ mem = Append0(Empty0, InitMem(b))
    /\ DT \in 1..MaxDT
    /\ \E c \in InVals :
           w = Append0(Empty0,
                   [pc |-> "run", i |-> 0, x |-> Make(1, c), y |-> Make(1, 0)])
    /\ initials = Empty0 /\ nchan = 0 /\ pc = "direct" /\ ret = NoRet
    /\ icn = 0 /\ cbLog = << >> /\ doneBy = << >>
    /\ lastRet = Append0(Empty0, "none")
    /\ steps = Append0(Empty0, 0)
    /\ wrote = Append0(Empty0, << >>)
    /\ sent = << >> /\ rcvd = << >>
    /\ initialized = FALSE /\ starts = 0 /\ stepn = 0

\* One call b.Step(x, y). The Integrate is driven by the constant input it
\* started with, the Stop by any input.
StepAlone ==
    /\ pc = "direct" /\ w[0].pc = "run" /\ steps[0] < MaxCalls
    /\ \E v \in InVals :
           /\ blocks[0].Block.kind = "Integrate" => v = w[0].x[0]
           /\ LET x == [w[0].x EXCEPT ![0] = v]
                  r == Step(blocks[0].Block, mem[0], x, w[0].y, DT)
              IN  /\ mem' = [mem EXCEPT ![0] = r.mem]
                  /\ w' = [w EXCEPT ![0] =
                            [pc |-> IF r.ok THEN "run" ELSE "exit", i |-> 0,
                             x |-> x, y |-> r.out]]
                  /\ lastRet' = [lastRet EXCEPT
                                   ![0] = IF r.ok THEN "continue" ELSE "stop"]
                  /\ wrote' = [wrote EXCEPT ![0] = Append(@, r.out)]
    /\ steps' = [steps EXCEPT ![0] = @ + 1]
    /\ UNCHANGED << name, DT, initialized, starts, stepn, prog, blocks,
                    initials, nchan, pc, ret, icn, cbLog, doneBy, sent, rcvd >>

BlockSpec == InitBlock /\ [][StepAlone]_vars

\* ceil(T / d) for T >= 0 and d > 0
Ceil(T, d) == (T + d - 1) \div d

Max(a, b) == IF a >= b THEN a ELSE b

\* after `steps[0]` calls a Stop with threshold T has returned false for the
\* first time on call number N, and true with out[0] = in[0] on every call
\* before
StopsOnCall(N) ==
    /\ lastRet[0] = "stop" <=> steps[0] = N
    /\ steps[0] <= N
    /\ (steps[0] > 0 /\ steps[0] < N) =>
           /\ lastRet[0] = "continue"
           /\ w[0].y[0] = w[0].x[0]
    /\ mem[0] = steps[0] * DT

\* C13 as stated: a Stop with threshold T and step size dt returns false for
\* the first time on its call number ceil(T/dt).
C13_StopsAtCeil ==
    blocks[0].Block.kind = "Stop" =>
        /\ lastRet[0] = "stop" => steps[0] = Ceil(blocks[0].Block.par, DT)
        /\ (steps[0] > 0 /\ steps[0] < Ceil(blocks[0].Block.par, DT)) =>
               /\ lastRet[0] = "continue"
               /\ w[0].y[0] = w[0].x[0]

\* C13, amended: a Stop with threshold T >= 0 and step size dt > 0 returns
\* false for the first time on its call number max(1, ceil(T/dt)) and has
\* returned true, with its input copied to its output, on every earlier call.
C13_StopsAtCeilOrFirst ==
    blocks[0].Block.kind = "Stop" =>
        StopsOnCall(Max(1, Ceil(blocks[0].Block.par, DT)))

C13_Witness ==
    /\ blocks[0].Block.kind = "Stop" /\ blocks[0].Block.par = 5 /\ DT = 2
    /\ steps[0] = 3 /\ lastRet[0] = "stop" /\ Len(wrote[0]) = 3
    /\ wrote[0][2][0] = 1

\* C19: an Integrate with initial State x0 and constant input c has, after
\* its n-th Step (n >= 1), State and output x0 + n*c*dt; with c = 0 the
\* output is x0 on every step.
C19_IntegrateLinear ==
    (blocks[0].Block.kind = "Integrate" /\ steps[0] >= 1) =>
        LET x0 == blocks[0].Block.par
            c == w[0].x[0]
            n == steps[0]
        IN  /\ mem[0] = x0 + n * c * DT
            /\ w[0].y[0] = x0 + n * c * DT
            /\ \A k \in 1..n : wrote[0][k][0] = x0 + k * c * DT
            /\ c = 0 => \A k \in 1..n : wrote[0][k][0] = x0
            /\ lastRet[0] = "continue"

C19_Witness ==
    /\ blocks[0].Block.kind = "Integrate" /\ blocks[0].Block.par = 1
    /\ w[0].x[0] = -1 /\ DT = 2 /\ steps[0] = 3 /\ mem[0] = -5

\* --------------------------------------------------------------- the tests

\* a Step of block b has returned false or is running its callbacks
Halted(b) == b \in DOMAIN w /\ w[b].pc \in {"cb", "done", "exit"}

\* C11: in TestOde1, with weakly fair workers and caller, some step is
\* possible in every state in which the Stop has not halted, and Start
\* eventually returns nil, the Stop's callback having run.
C11_Ode1Terminates ==
    name = "ode1" =>
        /\ [](~ Halted(6) => ENABLED << Next >>_vars)
        /\ <>(ret = Nil /\ cbLog = << << 6, 0 >> >>)
        /\ [](ret = Nil => cbLog = << << 6, 0 >> >>)

C11_Witness ==
    /\ name = "ode1" /\ ret = Nil /\ cbLog = << << 6, 0 >> >>
    /\ steps[6] = Ode1Time /\ w[6].pc = "exit" /\ steps[0] > 0
    /\ MainVals(ICChan(0)) = << 1 >>

\* Start has sent the first n initial conditions, each once, and no other
SentICs(n) ==
    IF \E k \in DOMAIN initials : ICChan(k) \notin Chans THEN FALSE
    ELSE \A k \in DOMAIN initials :
             MainVals(ICChan(k)) =
                 IF k < n THEN << initials[k].value >> ELSE << >>

\* C12: in TestOde2, with weakly fair workers and caller, both initial
\* conditions are sent, in the order registered (omega2's input 0, then
\* delta's input 0); some step is possible in every state in which the Stop
\* has not halted; Start eventually returns nil.
C12_Ode2Terminates ==
    name = "ode2" =>
        /\ <>(IF name = "ode2" /\ icn = 2 THEN SentICs(2) ELSE FALSE)
        /\ [](IF name # "ode2" \/ pc = "build" THEN TRUE
              ELSE IF Len0(initials) # 2 THEN FALSE
              ELSE /\ SentICs(icn)
                   /\ ICChan(0) = blocks[3].In[0]
                   /\ ICChan(1) = blocks[4].In[0])
        /\ [](~ Halted(9) => ENABLED << Next >>_vars)
        /\ <>(ret = Nil)

C12_Witness ==
    /\ name = "ode2" /\ ret = Nil /\ icn = 2 /\ cbLog = << << 9, 0 >> >>
    /\ steps[9] = StopTime /\ w[9].pc = "exit"
    /\ MainVals(blocks[3].In[0]) = << 0 >>
    /\ MainVals(blocks[4].In[0]) = << One >>

\* ------------------------------------------------ Start's phases, exits

\* C21: Start sends no initial condition before every block has its worker;
\* it sends them one at a time in registration order, each send a rendezvous
\* in which the target worker, waiting on that input, stores the value; it
\* waits on done only when the last one has been received.
C21_ICPhaseOrder ==
    [][/\ pc' = "ic" => DOMAIN w' = DOMAIN blocks'
       /\ pc' = "wait" =>
              /\ DOMAIN w' = DOMAIN blocks'
              /\ icn' = Len0(initials')
       /\ icn' # icn =>
              /\ pc = "ic" /\ icn' = icn + 1 /\ DOMAIN w = DOMAIN blocks
              /\ LET ic == initials[icn]
                     c == ICChan(icn)
                 IN  /\ c \in Chans
                     /\ w[ic.block].pc = "recv" /\ w[ic.block].i = ic.input
                     /\ w'[ic.block].x[ic.input] = ic.value
                     /\ sent'[c] = Log(sent[c], [by |-> Main, val |-> ic.value])
                     /\ rcvd'[c] =
                            Log(rcvd[c], [by |-> ic.block, val |-> ic.value])
       /\ \A c \in Chans :
              ByMain(sent'[c]) # ByMain(sent[c]) =>
                  icn' = icn + 1 /\ c = ICChan(icn)]_vars

C21_Witness ==
    /\ name = "ode2" /\ pc = "wait" /\ icn = 2
    /\ rcvd[ICChan(0)][1] = [by |-> 3, val |-> 0]
    /\ rcvd[ICChan(1)][1] = [by |-> 4, val |-> One]
    /\ steps[3] = 0 /\ w[3].pc = "run"

\* the workers that have returned from their goroutine
Exited == {b \in DOMAIN w : w[b].pc = "exit"}

\* C22: no edge is closed or rebound once Start runs and no worker is
\* cancelled: at most one worker ever exits, the one whose notification
\* Start received; a worker whose Step returns false after that stays in its
\* send on done.
C22_OneExit ==
    [][/\ Cardinality(Exited') <= 1
       /\ Len(doneBy') <= 1
       /\ Exited' = {doneBy'[n] : n \in 1..Len(doneBy')}
       /\ Exited # {} => (ret = Nil /\ Exited' = Exited)
       /\ pc # "build" => blocks' = blocks
       /\ \A b \in DOMAIN w :
              /\ (w[b].pc = "done" /\ ret = Nil) => w'[b].pc = "done"
              /\ (w'[b].pc = "exit" /\ w[b].pc # "exit") =>
                     /\ w[b].pc = "done" /\ pc = "wait" /\ ret' = Nil
                     /\ lastRet[b] = "stop"]_vars

C22_Witness ==
    /\ name = "twostops" /\ ret = Nil
    /\ w[2].pc = "exit" /\ w[4].pc = "done" /\ doneBy = << 2 >>
    /\ cbLog = << << 4, 0 >> >>
    /\ w[0].pc = "send" /\ w[1].pc = "send"

\* ------------------------------------------------------ graphs and stalls

\* the blocks that read an edge block B writes
Succ(B) ==
    {X \in DOMAIN blocks :
        \E c \in Chans : B \in Producer(c) /\ X \in Consumer(c)}

\* the blocks reached from B along one edge or more
Reach(B) ==
    LET F[n \in 0..MaxBlocks] ==
            IF n = 0 THEN Succ(B)
            ELSE F[n - 1] \cup UNION {Succ(X) : X \in F[n - 1]}
    IN  F[MaxBlocks]

Acyclic == \A B \in DOMAIN blocks : B \notin Reach(B)

\* C23: in a validated graph without a cycle, without initial conditions and
\* without a block that stops, some step is possible in every state, however
\* the edges are assigned to the ports.
C23_AcyclicNoDeadlock ==
    (/\ pc \in {"spawn", "ic", "wait"}
     /\ Acyclic /\ Len0(initials) = 0 /\ Stops = {}) =>
        ENABLED << Next >>_vars

\* The programs in which every cycle has exactly one edge with an initial
\* condition: the two-block cycle, the two tests, and the loop seeded at
\* both inputs of its Add.
OneSeedPerCycle == {"cycle", "ode1", "ode2", "seed2", "seed2_rev"}

\* C24: when every cycle has exactly one seeded edge, Start gets past its
\* initial-condition sends, in whatever order the initial conditions were
\* registered.
C24_SeededCyclesStart ==
    name \in OneSeedPerCycle =>
        <>(IF pc \in {"wait", "returned"} THEN icn = Len0(initials) ELSE FALSE)

\* ------------------------------------------------------- the plot's data

Plots == {b \in DOMAIN blocks : blocks[b].Block.kind = "Plot"}

\* C25: in TestOde1 and TestOde2 the Stop's callback, which calls plt.Write,
\* is never in progress while the worker of plt is inside plt.Step.
C25_WriteNotDuringStep ==
    name \in {"ode1", "ode2"} =>
        \A s \in Stops \cap DOMAIN w, p \in Plots \cap DOMAIN w :
            ~ (w[s].pc = "cb" /\ w[p].pc = "run")

\* ---------------------------------------------------------- determinism

\* TestOde1 run step by step, every block once per step: the k-th output of
\* inte, given zeros' value z, neg's factor f, the initial condition v that
\* stands for neg's output in step 1, and inte's initial State.
Ode1Inte ==
    LET z == blocks[5].Block.par
        f == blocks[2].Block.par
        v == initials[0].value
        F[k \in 0..MaxHist] ==
            IF k = 0 THEN blocks[0].Block.par
            ELSE F[k - 1] + (z + (IF k = 1 THEN v ELSE f * F[k - 1])) * DT
    IN  F

\* the k-th value on each edge of TestOde1 in that run; the edges are
\* numbered in the order of the Connect calls
Ode1Ref(c) ==
    LET z == blocks[5].Block.par
        f == blocks[2].Block.par
        v == initials[0].value
        I == Ode1Inte
    IN  [k \in 1..MaxHist |->
            CASE c \in {1, 2, 3} -> I[k]
              [] c = 4 -> IF k = 1 THEN v ELSE f * I[k - 1]
              [] c \in {5, 6} -> z
              [] c = 7 -> z + (IF k = 1 THEN v ELSE f * I[k - 1])]

\* C26: in TestOde1 the values received on each input port are, in every
\* run and at every moment, a prefix of one sequence that depends on the
\* edge only, and the Stop halts in its Step number Time/DT in every run.
C26_Ode1Deterministic ==
    (name = "ode1" /\ pc # "build") =>
        /\ \A c \in Chans : IsPrefix(Vals(rcvd[c]), Ode1Ref(c))
        /\ Halted(6) => Invoked(6) = Ode1Time
        /\ ~ Halted(6) => Invoked(6) <= Ode1Time
        /\ lastRet[6] = "stop" <=> (steps[6] = Ode1Time)

C26_Witness ==
    /\ name = "ode1" /\ ret = Nil /\ steps[6] = Ode1Time
    /\ Len(rcvd[7]) >= 2 /\ rcvd[7][1].val # rcvd[7][2].val
    /\ Len(rcvd[4]) >= 2 /\ Len(rcvd[2]) >= 2

\* ---------------------------------------------------------- back-pressure

\* the edges with a writing block and a reading block, as pairs of blocks
Edges ==
    {<< P, C >> \in (DOMAIN blocks) \X (DOMAIN blocks) :
        \E c \in Chans : P \in Producer(c) /\ C \in Consumer(c)}

\* C27: in a validated system with at most one initial condition per port,
\* the numbers of returned Steps of the writer and of the reader of an edge
\* differ by at most 2.
C27_SkewAtMostTwo ==
    (/\ Validated
     /\ \A c \in Chans : Len(ICVals(c)) <= 1) =>
        \A e \in Edges :
            /\ steps[e[1]] - steps[e[2]] <= 2
            /\ steps[e[2]] - steps[e[1]] <= 2

C27_Witness ==
    /\ Validated
    /\ \E e \in Edges :
           /\ steps[e[1]] = 2 /\ steps[e[2]] = 0
           /\ w[e[1]].pc = "send" /\ w[e[2]].pc = "run"
    /\ \E e \in Edges : steps[e[2]] = steps[e[1]] + 1 /\ steps[e[2]] < MaxHist

====
